---- MODULE Spec2Model ----
(***************************************************************************)
(* Desktop-set grouping of the SSBAS inventory system                      *)
(* (src/src/utils/assetGrouping.ts), the asset routes of its server        *)
(* (src/src/supabase/functions/server/index.tsx) and the selection of its  *)
(* asset list (src/src/components/AssetList.tsx).                          *)
(*                                                                         *)
(* A JavaScript string is a sequence of one-character strings, so that     *)
(* trimming, the tag pattern, key concatenation and key splitting are      *)
(* computed character by character.  null/undefined is the value NULL.     *)
(***************************************************************************)
EXTENDS Integers, Sequences, FiniteSets, TLC

VARIABLES pc, tag, info, assets, peripheralAssets, ungroupedAssets, setsMap,
          desktopSets, typeName, previous

\* the frames of the calls of groupAssetsIntoDesktopSets that run side by side
VARIABLES frames

\* the server (supabase/functions/server/index.tsx): the key-value store, the
\* time of day and the requests in progress
VARIABLES store, now, requests

\* the state of the AssetList component (components/AssetList.tsx)
VARIABLES listAssets, searchTerm, assetClassFilter, locationFilter, sortField,
          sortDirection, selectedAssets

\* what a step of the grouping call and of parseAssetTag leaves alone
others == <<frames, store, now, requests, listAssets, searchTerm,
            assetClassFilter, locationFilter, sortField, sortDirection,
            selectedAssets>>

vars == <<pc, tag, info, assets, peripheralAssets, ungroupedAssets, setsMap,
          desktopSets, typeName, previous, others>>

(***************************************************************************)
(* Values                                                                  *)
(***************************************************************************)

\* null / undefined: a one-element sequence that no string equals, because the
\* characters of a string are one-character strings.
NULL == <<"null">>

Digit == {"0", "1", "2", "3", "4", "5", "6", "7", "8", "9"}

\* the characters String.prototype.trim removes (those of the modelled alphabet)
WhiteSpace == {" ", "\t"}

UpperOf ==
  [c \in {"a", "b", "c", "k", "m", "o", "r", "s", "t", "x"} |->
     CASE c = "a" -> "A" [] c = "b" -> "B" [] c = "c" -> "C" [] c = "k" -> "K"
       [] c = "m" -> "M" [] c = "o" -> "O" [] c = "r" -> "R" [] c = "s" -> "S"
       [] c = "t" -> "T" [] c = "x" -> "X"]

\* the regular expression's case folding under the i flag: toUpperCase
Canonicalize(ch) == IF ch \in DOMAIN UpperOf THEN UpperOf[ch] ELSE ch

(***************************************************************************)
(* parseAssetTag                                                           *)
(***************************************************************************)

RECURSIVE TrimStart(_)
TrimStart(s) ==
  IF s # <<>> /\ Head(s) \in WhiteSpace THEN TrimStart(Tail(s)) ELSE s

RECURSIVE TrimEnd(_)
TrimEnd(s) ==
  IF s # <<>> /\ s[Len(s)] \in WhiteSpace
    THEN TrimEnd(SubSeq(s, 1, Len(s) - 1))
    ELSE s

\* trimStart in place of trim
TrimStartOnly(s) == TrimStart(s)

\* String.prototype.trim
Trim(s) == TrimEnd(TrimStart(s))

\* the literal lit stands at position i of s, compared under the i flag
MatchesAt(s, i, lit) ==
  /\ i + Len(lit) - 1 <= Len(s)
  /\ \A k \in 1..Len(lit) : Canonicalize(s[i + k - 1]) = Canonicalize(lit[k])

\* \d at every position i..j of s
DigitsAt(s, i, j) == j <= Len(s) /\ \A k \in i..j : s[k] \in Digit

\* the alternation (Mo|Ko|Ro|Co)
TypeAlternatives == {<<"M", "o">>, <<"K", "o">>, <<"R", "o">>, <<"C", "o">>}

NoMatch == <<>>

\* /^SSBAS\/(Mo|Ko|Ro|Co)\/(\d{4}-\d{2})\/(T\d+)$/i accepts the whole of s
PatternTest(s) ==
  /\ MatchesAt(s, 1, <<"S", "S", "B", "A", "S", "/">>)
  /\ \E alt \in TypeAlternatives : MatchesAt(s, 7, alt)
  /\ MatchesAt(s, 9, <<"/">>)
  /\ DigitsAt(s, 10, 13)
  /\ MatchesAt(s, 14, <<"-">>)
  /\ DigitsAt(s, 15, 16)
  /\ MatchesAt(s, 17, <<"/", "T">>)
  /\ Len(s) >= 19
  /\ DigitsAt(s, 19, Len(s))

\* String.prototype.match: NoMatch, or the three captured groups
RegexMatch(s) ==
  IF PatternTest(s)
    THEN <<SubSeq(s, 7, 8), SubSeq(s, 10, 16), SubSeq(s, 18, Len(s))>>
    ELSE NoMatch

\* a match that leaves the third group unset
parseAssetTagPartial(assetTagging) ==
  LET match == RegexMatch(Trim(assetTagging))
  IN  IF match = NoMatch
        THEN [type |-> NULL, financialYear |-> NULL, setId |-> NULL,
              isPeripheral |-> FALSE]
        ELSE [type |-> match[1], financialYear |-> match[2],
              setId |-> NULL, isPeripheral |-> TRUE]

parseAssetTag(assetTagging) ==
  LET normalizedTag == Trim(assetTagging)
      match == RegexMatch(normalizedTag)
  IN  IF match = NoMatch
        THEN [type |-> NULL, financialYear |-> NULL, setId |-> NULL,
              isPeripheral |-> FALSE]
        ELSE [type |-> match[1], financialYear |-> match[2],
              setId |-> match[3], isPeripheral |-> TRUE]


(***************************************************************************)
(* groupAssetsIntoDesktopSets                                              *)
(***************************************************************************)

\* a truthy string: neither absent nor empty
Truthy(v) == v # NULL /\ v # <<>>

\* property names of DesktopSet.components
monitor == <<"m", "o", "n", "i", "t", "o", "r">>
keyboard == <<"k", "e", "y", "b", "o", "a", "r", "d">>
mouse == <<"m", "o", "u", "s", "e">>
cpu == <<"c", "p", "u">>
\* the property name that an undefined key is converted to
undefinedKey == <<"u", "n", "d", "e", "f", "i", "n", "e", "d">>

SlotNames == {monitor, keyboard, mouse, cpu}

\* the lookup table of getComponentKey
componentMapping ==
  [t \in TypeAlternatives |->
     CASE t = <<"M", "o">> -> monitor
       [] t = <<"K", "o">> -> keyboard
       [] t = <<"R", "o">> -> mouse
       [] t = <<"C", "o">> -> cpu]

\* mapping[type]: a type the table does not hold reads as undefined
getComponentKey(type) ==
  IF type \in DOMAIN componentMapping THEN componentMapping[type] ELSE NULL

\* obj[key] = value, the key converted to a property name
ToPropertyKey(key) == IF key = NULL THEN undefinedKey ELSE key

\* obj[key] ??= value: an existing property is kept
SetPropertyIfAbsent(obj, key, value) ==
  [k \in (DOMAIN obj) \cup {ToPropertyKey(key)} |->
     IF k \in DOMAIN obj THEN obj[k] ELSE value]

SetProperty(obj, key, value) ==
  [k \in (DOMAIN obj) \cup {ToPropertyKey(key)} |->
     IF k = ToPropertyKey(key) THEN value ELSE obj[k]]

EmptyObject == [k \in {} |-> NULL]

\* unshift in place of push: the conforming assets, last one first
PeripheralsOfReversed(as) ==
  LET kept == SelectSeq(as, LAMBDA a : parseAssetTag(a.assetTagging).isPeripheral)
  IN  [i \in 1..Len(kept) |-> kept[Len(kept) + 1 - i]]

\* the first forEach: the conforming assets, in input order
PeripheralsOf(as) ==
  SelectSeq(as, LAMBDA a : parseAssetTag(a.assetTagging).isPeripheral)

\* the two branches of the first forEach swapped
UngroupedOfSwapped(as) ==
  SelectSeq(as, LAMBDA a : parseAssetTag(a.assetTagging).isPeripheral)

\* the first forEach: the other assets, in input order
UngroupedOf(as) ==
  SelectSeq(as, LAMBDA a : ~parseAssetTag(a.assetTagging).isPeripheral)

\* the key in upper case
CompositeKeyFolded(pinfo) ==
  LET key == pinfo.financialYear \o <<"-">> \o pinfo.setId
  IN  [i \in 1..Len(key) |-> Canonicalize(key[i])]

\* `${info.financialYear}-${info.setId}`
CompositeKey(pinfo) == pinfo.financialYear \o <<"-">> \o pinfo.setId

\* a has that never finds the key
MapHasNever(map, key) == FALSE

\* Map: a sequence of entries in insertion order
MapHas(map, key) == \E i \in 1..Len(map) : map[i].key = key

MapIndex(map, key) == CHOOSE i \in 1..Len(map) : map[i].key = key

\* setsMap.set(key, [asset]) for every asset: the bucket keeps the last one
MapPushReplacing(map, key, asset) ==
  IF MapHas(map, key)
    THEN [map EXCEPT ![MapIndex(map, key)].value = <<asset>>]
    ELSE Append(map, [key |-> key, value |-> <<asset>>])

\* setsMap.get(key).push(asset), after setsMap.set(key, []) for a new key
MapPush(map, key, asset) ==
  IF MapHas(map, key)
    THEN [map EXCEPT ![MapIndex(map, key)].value = Append(@, asset)]
    ELSE Append(map, [key |-> key, value |-> <<asset>>])

\* the body of the second forEach for one asset
BucketStep(map, asset) ==
  LET pinfo == parseAssetTag(asset.assetTagging)
  IN  IF pinfo.isPeripheral /\ Truthy(pinfo.setId) /\ Truthy(pinfo.financialYear)
        THEN MapPush(map, CompositeKey(pinfo), asset)
        ELSE map

RECURSIVE BucketAll(_, _)
BucketAll(map, as) ==
  IF as = <<>> THEN map ELSE BucketAll(BucketStep(map, Head(as)), Tail(as))

\* String.prototype.indexOf for one character, 1-based; 0 when absent
IndexOf(s, ch) ==
  IF \E i \in 1..Len(s) : s[i] = ch
    THEN CHOOSE i \in 1..Len(s) :
           s[i] = ch /\ \A j \in 1..(i - 1) : s[j] # ch
    ELSE 0

\* String.prototype.lastIndexOf for one character, 1-based; 0 when absent
LastIndexOf(s, ch) ==
  IF \E i \in 1..Len(s) : s[i] = ch
    THEN CHOOSE i \in 1..Len(s) :
           s[i] = ch /\ \A j \in (i + 1)..Len(s) : s[j] # ch
    ELSE 0

\* the replace left out
KeepAll(s, ch) == s

\* String.prototype.replace(ch, ''): removes the first occurrence of ch
RemoveFirst(s, ch) ==
  IF \E i \in 1..Len(s) : s[i] = ch
    THEN LET i == CHOOSE i \in 1..Len(s) :
                    s[i] = ch /\ \A j \in 1..(i - 1) : s[j] # ch
         IN  SubSeq(s, 1, i - 1) \o SubSeq(s, i + 1, Len(s))
    ELSE s

\* an asset whose type has no component key is skipped
ComponentStepKnownOnly(comps, asset) ==
  LET pinfo == parseAssetTag(asset.assetTagging)
  IN  IF Truthy(pinfo.type) /\ getComponentKey(pinfo.type) # NULL
        THEN SetProperty(comps, getComponentKey(pinfo.type), asset)
        ELSE comps

\* the body of components.forEach for one asset
ComponentStep(comps, asset) ==
  LET pinfo == parseAssetTag(asset.assetTagging)
  IN  IF Truthy(pinfo.type)
        THEN SetProperty(comps, getComponentKey(pinfo.type), asset)
        ELSE comps

RECURSIVE ComponentsOfList(_, _)
ComponentsOfList(comps, as) ==
  IF as = <<>> THEN comps
  ELSE ComponentsOfList(ComponentStep(comps, Head(as)), Tail(as))

\* the forEach run over every peripheral asset in place of the bucket's
ComponentsOfEveryPeripheral(comps, as) == ComponentsOfList(comps, peripheralAssets)

RECURSIVE ComponentsOf(_, _)
ComponentsOf(comps, as) ==
  IF as = <<>> THEN comps
  ELSE ComponentsOf(ComponentStep(comps, Head(as)), Tail(as))

\* the value of the decimal digit ch
DigitValue(ch) ==
  CASE ch = "0" -> 0 [] ch = "1" -> 1 [] ch = "2" -> 2 [] ch = "3" -> 3
    [] ch = "4" -> 4 [] ch = "5" -> 5 [] ch = "6" -> 6 [] ch = "7" -> 7
    [] ch = "8" -> 8 [] ch = "9" -> 9

\* the number of consecutive digits of s from position i on
DigitRun(s, i) ==
  CHOOSE n \in 0..Len(s) :
    /\ i + n - 1 <= Len(s)
    /\ \A k \in i..(i + n - 1) : s[k] \in Digit
    /\ (i + n <= Len(s) => s[i + n] \notin Digit)

\* the integer written by the digits s[i..j]
RECURSIVE DigitsValue(_, _, _)
DigitsValue(s, i, j) ==
  IF j < i THEN 0 ELSE 10 * DigitsValue(s, i, j - 1) + DigitValue(s[j])

\* a number: NaN, or a finite value
NaN == [nan |-> TRUE, value |-> 0]

Finite(v) == [nan |-> FALSE, value |-> v]

\* parseFloat on decimal notation ([ws][sign]digits[.digits], the rest ignored);
\* the value is kept in hundredths, digits after the second decimal dropped
parseFloat(str) ==
  LET t == TrimStart(str)
      signLen == IF t # <<>> /\ t[1] \in {"+", "-"} THEN 1 ELSE 0
      i == signLen + 1
      n == DigitRun(t, i)
      hasDot == i + n <= Len(t) /\ t[i + n] = "."
      m == IF hasDot THEN DigitRun(t, i + n + 1) ELSE 0
      whole == DigitsValue(t, i, i + n - 1)
      d1 == IF m >= 1 THEN DigitValue(t[i + n + 1]) ELSE 0
      d2 == IF m >= 2 THEN DigitValue(t[i + n + 2]) ELSE 0
      magnitude == 100 * whole + 10 * d1 + d2
  IN  IF n + m = 0 THEN NaN
      ELSE IF signLen = 1 /\ t[1] = "-" THEN Finite(0 - magnitude)
      ELSE Finite(magnitude)

\* the cost read from the last component in place of the first
TotalCostOfLast(components) ==
  IF Len(components) > 0 /\ Truthy(components[Len(components)].originalCost)
    THEN LET v == parseFloat(components[Len(components)].originalCost)
         IN  IF v.nan THEN 0 ELSE v.value
    ELSE 0

\* parseFloat(components[0].originalCost) || 0, guarded by the truthiness test
TotalCostOf(components) ==
  IF Len(components) > 0 /\ Truthy(components[1].originalCost)
    THEN LET v == parseFloat(components[1].originalCost)
         IN  IF v.nan THEN 0 ELSE v.value
    ELSE 0

MixedLocations ==
  <<"M", "i", "x", "e", "d", " ", "L", "o", "c", "a", "t", "i", "o", "n", "s">>

\* the locations compared without the filter: a missing one counts as a value
LocationOfUnfiltered(components) ==
  LET locations == [i \in 1..Len(components) |-> components[i].location]
      uniqueLocations == {locations[i] : i \in 1..Len(locations)}
  IN  IF Len(locations) > 0
        THEN IF Cardinality(uniqueLocations) = 1
               THEN locations[1]
               ELSE MixedLocations
        ELSE NULL

\* set.location; NULL when the property is never assigned
LocationOf(components) ==
  LET locations == SelectSeq([i \in 1..Len(components) |-> components[i].location],
                             Truthy)
      uniqueLocations == {locations[i] : i \in 1..Len(locations)}
  IN  IF Len(locations) > 0
        THEN IF Cardinality(uniqueLocations) = 1
               THEN locations[1]
               ELSE MixedLocations
        ELSE NULL

DesktopSetPrefix ==
  <<"D", "e", "s", "k", "t", "o", "p", " ", "S", "e", "t", " ">>

\* (componentCount / 4) * 100
CompletenessOf(comps) == (Cardinality(DOMAIN comps) * 100) \div 4

\* key.substring(0, lastDashIndex)
KeyFinancialYear(key) == SubSeq(key, 1, LastIndexOf(key, "-") - 1)

\* key.substring(lastDashIndex + 1)
KeySetId(key) == SubSeq(key, LastIndexOf(key, "-") + 1, Len(key))

\* the body of setsMap.forEach for one entry
BuildSet(entry) ==
  LET key == entry.key
      components == entry.value
      financialYear == KeyFinancialYear(key)
      setId == KeySetId(key)
      setNumber == RemoveFirst(setId, "T")
      comps == ComponentsOf(EmptyObject, components)
  IN  [setId |-> setId,
       financialYear |-> financialYear,
       displayName |-> DesktopSetPrefix \o setNumber \o <<" ", "(">>
                         \o financialYear \o <<")">>,
       components |-> comps,
       allAssets |-> components,
       completeness |-> CompletenessOf(comps),
       isGrouped |-> TRUE,
       totalCost |-> TotalCostOf(components),
       location |-> LocationOf(components)]

\* the collation order of the characters that occur in asset tags (punctuation
\* before digits before letters); letters differ by case only at the last
\* level
CollationOrder ==
  <<"-", "/", "0", "1", "2", "3", "4", "5", "6", "7", "8", "9", "A", "B", "C",
    "K", "M", "O", "R", "S", "T", "X">>

PrimaryWeight(ch) ==
  CHOOSE i \in 1..Len(CollationOrder) : CollationOrder[i] = Canonicalize(ch)

\* lower case before upper case
CaseWeight(ch) == IF ch \in DOMAIN UpperOf THEN 0 ELSE 1

\* -1, 0, 1 by the first position at which the primary weights differ; a
\* proper prefix comes first
RECURSIVE ComparePrimary(_, _)
ComparePrimary(a, b) ==
  IF a = <<>> /\ b = <<>> THEN 0
  ELSE IF a = <<>> THEN 0 - 1
  ELSE IF b = <<>> THEN 1
  ELSE IF PrimaryWeight(Head(a)) < PrimaryWeight(Head(b)) THEN 0 - 1
  ELSE IF PrimaryWeight(Head(a)) > PrimaryWeight(Head(b)) THEN 1
  ELSE ComparePrimary(Tail(a), Tail(b))

\* the same by letter case, for strings of equal primary weights
RECURSIVE CompareCase(_, _)
CompareCase(a, b) ==
  IF a = <<>> \/ b = <<>> THEN 0
  ELSE IF CaseWeight(Head(a)) < CaseWeight(Head(b)) THEN 0 - 1
  ELSE IF CaseWeight(Head(a)) > CaseWeight(Head(b)) THEN 1
  ELSE CompareCase(Tail(a), Tail(b))

\* String.prototype.localeCompare: letters and digits first, case last
localeCompare(a, b) ==
  LET primary == ComparePrimary(a, b)
  IN  IF primary # 0 THEN primary ELSE CompareCase(a, b)

\* the comparator with the financial years compared the other way round
SetCompareYearAscending(a, b) ==
  LET yearCompare == localeCompare(a.financialYear, b.financialYear)
  IN  IF yearCompare # 0 THEN yearCompare
      ELSE localeCompare(a.setId, b.setId)

\* the comparator given to desktopSets.sort
SetCompare(a, b) ==
  LET yearCompare == localeCompare(b.financialYear, a.financialYear)
  IN  IF yearCompare # 0 THEN yearCompare
      ELSE localeCompare(a.setId, b.setId)

\* x put behind the last element that does not come after it
RECURSIVE InsertSorted(_, _)
InsertSorted(sorted, x) ==
  IF sorted = <<>> THEN <<x>>
  ELSE IF SetCompare(sorted[Len(sorted)], x) <= 0 THEN Append(sorted, x)
  ELSE Append(InsertSorted(SubSeq(sorted, 1, Len(sorted) - 1), x),
              sorted[Len(sorted)])

\* Array.prototype.sort with the comparator: a stable sort
RECURSIVE SortSets(_)
SortSets(sets) ==
  IF sets = <<>> THEN <<>>
  ELSE InsertSorted(SortSets(SubSeq(sets, 1, Len(sets) - 1)), sets[Len(sets)])

(***************************************************************************)
(* Supporting lookups                                                      *)
(***************************************************************************)

\* the lookup table of getPeripheralTypeName
typeNameMapping ==
  [t \in TypeAlternatives |->
     CASE t = <<"M", "o">> -> <<"M", "o", "n", "i", "t", "o", "r">>
       [] t = <<"K", "o">> -> <<"K", "e", "y", "b", "o", "a", "r", "d">>
       [] t = <<"R", "o">> -> <<"M", "o", "u", "s", "e">>
       [] t = <<"C", "o">> -> <<"C", "P", "U">>]

Unknown == <<"U", "n", "k", "n", "o", "w", "n">>

\* type ? mapping[type] : 'Unknown'; a type the table does not hold reads as
\* undefined
getPeripheralTypeName(type) ==
  IF Truthy(type)
    THEN IF type \in DOMAIN typeNameMapping THEN typeNameMapping[type] ELSE NULL
    ELSE Unknown

\* the financial year alone as the identifier
getSetIdentifierYearOnly(assetTagging) ==
  LET pinfo == parseAssetTag(assetTagging)
  IN  IF ~pinfo.isPeripheral \/ ~Truthy(pinfo.setId) \/ ~Truthy(pinfo.financialYear)
        THEN NULL
        ELSE pinfo.financialYear

getSetIdentifier(assetTagging) ==
  LET pinfo == parseAssetTag(assetTagging)
  IN  IF ~pinfo.isPeripheral \/ ~Truthy(pinfo.setId) \/ ~Truthy(pinfo.financialYear)
        THEN NULL
        ELSE pinfo.financialYear \o <<"-">> \o pinfo.setId

(***************************************************************************)
(* Inputs                                                                  *)
(***************************************************************************)

\* the longest input list of the grouping specification
MaxAssets == 3

SSBAS == <<"S", "S", "B", "A", "S">>
FY2025 == <<"2", "0", "2", "5", "-", "2", "6">>
FY2024 == <<"2", "0", "2", "4", "-", "2", "5">>
T01 == <<"T", "0", "1">>
LabA == <<"L", "a", "b", " ", "A">>
LabB == <<"L", "a", "b", " ", "B">>

\* prefix/type/financial year/set id
TagOf(prefix, type, fy, id) ==
  prefix \o <<"/">> \o type \o <<"/">> \o fy \o <<"/">> \o id

AssetOf(t, cost, loc) ==
  [assetTagging |-> t, originalCost |-> cost, location |-> loc]

\* the asset records the input lists are drawn from
AssetPool ==
  { AssetOf(TagOf(SSBAS, <<"M", "o">>, FY2025, T01),
            <<"1", "0", "0", "0">>, LabA),
    AssetOf(TagOf(SSBAS, <<"K", "o">>, FY2025, T01),
            <<"2", "5", "0", ".", "5", "0">>, LabA),
    AssetOf(TagOf(SSBAS, <<"R", "o">>, FY2025, T01), NULL, LabB),
    AssetOf(TagOf(SSBAS, <<"C", "o">>, FY2025, T01), <<>>, NULL),
    AssetOf(TagOf(<<"s", "s", "b", "a", "s">>, <<"m", "o">>, FY2025, T01),
            <<"7", "5">>, <<>>),
    AssetOf(<<" ">> \o TagOf(SSBAS, <<"M", "o">>, FY2024, <<"T", "2">>) \o <<" ">>,
            <<"3", "0", "0">>, LabB),
    AssetOf(TagOf(SSBAS, <<"K", "o">>, FY2025, <<"t", "0", "1">>),
            <<"a", "b", "c">>, NULL),
    AssetOf(<<"R", "A", "N", "D", "O", "M", "-", "0", "0", "1">>,
            <<"9", "0">>, LabA) }

\* the longest input list of distinct records (tags are unique in the register)
MaxSetAssets == 5

\* the records of the pool that belong to set T01 of 2025-26
OneSetPool ==
  { a \in AssetPool :
      LET pinfo == parseAssetTag(a.assetTagging)
      IN  pinfo.isPeripheral /\ pinfo.financialYear = FY2025 /\ pinfo.setId = T01 }

\* records of sets whose order shows the comparator: two financial years, set
\* ids T10 and T2, set ids that differ in letter case only
SortPool ==
  { AssetOf(TagOf(SSBAS, <<"M", "o">>, FY2024, <<"T", "1", "0">>),
            <<"9", "0">>, LabA),
    AssetOf(TagOf(SSBAS, <<"K", "o">>, FY2024, <<"T", "2">>), NULL, LabA),
    AssetOf(TagOf(SSBAS, <<"M", "o">>, FY2025, T01), <<"1", "0", "0", "0">>, LabA),
    AssetOf(TagOf(SSBAS, <<"K", "o">>, FY2025, <<"t", "0", "1">>),
            <<"a", "b", "c">>, NULL),
    AssetOf(TagOf(SSBAS, <<"R", "o">>, FY2025, <<"T", "2">>), <<"7", "5">>, LabB) }

\* an asset record of the pool as the object at position i of the input array
WithRef(a, i) ==
  [ref |-> i, assetTagging |-> a.assetTagging, originalCost |-> a.originalCost,
   location |-> a.location]

\* no record twice in f
Distinct(f) == \A i, j \in DOMAIN f : f[i] = f[j] => i = j

\* the input array that holds the records f[1], f[2], ...
AsInput(f) == [i \in DOMAIN f |-> WithRef(f[i], i)]

\* the tags parseAssetTag is applied to
PadSet == {<<>>, <<" ">>, <<"\t", " ">>}

PrefixSet == {SSBAS, <<"s", "s", "b", "a", "s">>, <<"S", "S", "B", "A">>,
              <<"X", "S", "S", "B", "A", "S">>}

TypeSet == {<<"M", "o">>, <<"K", "o">>, <<"R", "o">>, <<"C", "o">>,
            <<"m", "o">>, <<"K", "O">>, <<"r", "O">>, <<"X", "o">>, <<"M">>,
            <<"M", "o", "o">>}

YearSet == {FY2025, FY2024, <<"2", "0", "2", "-", "2", "6">>,
            <<"2", "0", "2", "5", "-", "6">>,
            <<"2", "0", "2", "5", "_", "2", "6">>,
            <<"2", "0", "a", "5", "-", "2", "6">>,
            <<"2", "0", "2", "5", "2", "6">>}

SetIdSet == {T01, <<"T", "1">>, <<"t", "0", "1">>, <<"T", "1", "2", "3">>,
             <<"T">>, <<"T", "0", "a">>, <<"0", "1">>, <<"T", " ", "1">>,
             <<"T", "0", "1", "/", "X">>}

TagSet ==
  { l \o TagOf(p, t, y, i) \o r :
      l \in PadSet, r \in PadSet, p \in PrefixSet, t \in TypeSet, y \in YearSet,
      i \in SetIdSet }
  \cup { <<>>, <<" ">>, <<"R", "A", "N", "D", "O", "M", "-", "0", "0", "1">>,
         SSBAS \o <<"/">> \o <<"M", "o">> \o <<"/">> \o T01,
         SSBAS \o <<"/">> \o <<"M", "o">> \o <<"/">> \o FY2025 }

NullInfo ==
  [type |-> NULL, financialYear |-> NULL, setId |-> NULL, isPeripheral |-> FALSE]

\* no call runs beside the one of pc
NoCallers == frames = <<>>

\* the server is not part of the run
NoServer == store = <<>> /\ now = 0 /\ requests = <<>>

\* the AssetList component is not part of the run
NoList ==
  /\ listAssets = <<>>
  /\ searchTerm = <<>>
  /\ assetClassFilter = <<>>
  /\ locationFilter = <<>>
  /\ sortField = ""
  /\ sortDirection = ""
  /\ selectedAssets = <<>>

(***************************************************************************)
(* The grouping call, one action per pass of groupAssetsIntoDesktopSets    *)
(***************************************************************************)

Init ==
  /\ pc = "partition"
  /\ \/ \E n \in 0..MaxAssets : \E f \in [1..n -> AssetPool] : assets = AsInput(f)
     \/ \E n \in 0..MaxSetAssets : \E f \in [1..n -> OneSetPool] :
          Distinct(f) /\ assets = AsInput(f)
     \/ \E n \in 0..MaxSetAssets : \E f \in [1..n -> SortPool] :
          Distinct(f) /\ assets = AsInput(f)
  /\ peripheralAssets = <<>>
  /\ ungroupedAssets = <<>>
  /\ setsMap = <<>>
  /\ desktopSets = <<>>
  /\ tag = <<>>
  /\ info = NullInfo
  /\ typeName = NULL
  /\ previous = <<>>
  /\ NoCallers /\ NoServer /\ NoList

\* assets.forEach: peripherals apart from the others
Partition ==
  /\ pc = "partition"
  /\ peripheralAssets' = PeripheralsOf(assets)
  /\ ungroupedAssets' = UngroupedOf(assets)
  /\ pc' = "bucket"
  /\ UNCHANGED others
  /\ UNCHANGED <<tag, info, typeName, previous, assets, setsMap, desktopSets>>

\* the bucket pass on a map that outlives the call
BucketKeepingMap ==
  /\ pc = "bucket"
  /\ setsMap' = BucketAll(setsMap, peripheralAssets)
  /\ pc' = "reduce"
  /\ UNCHANGED others
  /\ UNCHANGED <<tag, info, typeName, previous, assets, peripheralAssets,
                 ungroupedAssets, desktopSets>>

\* peripheralAssets.forEach: buckets by financial year and set id
Bucket ==
  /\ pc = "bucket"
  /\ setsMap' = BucketAll(<<>>, peripheralAssets)
  /\ pc' = "reduce"
  /\ UNCHANGED others
  /\ UNCHANGED <<tag, info, typeName, previous, assets, peripheralAssets, ungroupedAssets, desktopSets>>

\* setsMap.forEach: one DesktopSet per bucket, in insertion order
Reduce ==
  /\ pc = "reduce"
  /\ desktopSets' = [i \in 1..Len(setsMap) |-> BuildSet(setsMap[i])]
  /\ pc' = "sort"
  /\ UNCHANGED others
  /\ UNCHANGED <<tag, info, typeName, previous, assets, peripheralAssets, ungroupedAssets, setsMap>>

\* desktopSets.sort, then the return
Sort ==
  /\ pc = "sort"
  /\ desktopSets' = SortSets(desktopSets)
  /\ pc' = "done"
  /\ UNCHANGED others
  /\ UNCHANGED <<tag, info, typeName, previous, assets, peripheralAssets, ungroupedAssets, setsMap>>

Next == Partition \/ Bucket \/ Reduce \/ Sort

Spec == Init /\ [][Next]_vars

(***************************************************************************)
(* The grouping call repeated on the same input                            *)
(***************************************************************************)

\* the longest input list of the repeated call
MaxRepeatAssets == 3

\* the number of calls on one input
MaxCalls == 2

\* the value the call returns
Result == [desktopSets |-> desktopSets, ungroupedAssets |-> ungroupedAssets]

InitAgain ==
  /\ pc = "partition"
  /\ \E n \in 0..MaxRepeatAssets : \E f \in [1..n -> AssetPool] : assets = AsInput(f)
  /\ peripheralAssets = <<>>
  /\ ungroupedAssets = <<>>
  /\ setsMap = <<>>
  /\ desktopSets = <<>>
  /\ tag = <<>>
  /\ info = NullInfo
  /\ typeName = NULL
  /\ previous = <<>>
  /\ NoCallers /\ NoServer /\ NoList

\* the caller keeps the returned value and calls again with the same array
CallAgain ==
  /\ pc = "done"
  /\ Len(previous) + 1 < MaxCalls
  /\ previous' = Append(previous, Result)
  /\ pc' = "partition"
  /\ UNCHANGED others
  /\ UNCHANGED <<tag, info, typeName, assets, peripheralAssets, ungroupedAssets,
                 setsMap, desktopSets>>

NextAgain == Partition \/ Bucket \/ Reduce \/ Sort \/ CallAgain

SpecAgain == InitAgain /\ [][NextAgain]_vars

(***************************************************************************)
(* The grouping call repeated on the same assets in another order          *)
(***************************************************************************)

\* the array as[p[1]], as[p[2]], ...: the same objects in the order p
Reordered(as, p) == [i \in 1..Len(as) |-> as[p[i]]]

\* filteredAssets is built anew in another order (a sort by another field or
\* direction) and handed to the grouping call
CallPermuted ==
  /\ pc = "done"
  /\ Len(previous) + 1 < MaxCalls
  /\ \E p \in Permutations(1..Len(assets)) :
       /\ Reordered(assets, p) # assets
       /\ assets' = Reordered(assets, p)
  /\ previous' = Append(previous, Result)
  /\ pc' = "partition"
  /\ UNCHANGED others
  /\ UNCHANGED <<tag, info, typeName, peripheralAssets, ungroupedAssets,
                 setsMap, desktopSets>>

NextPermuted == Partition \/ Bucket \/ Reduce \/ Sort \/ CallPermuted

SpecPermuted == InitAgain /\ [][NextPermuted]_vars

(***************************************************************************)
(* Two calls of groupAssetsIntoDesktopSets side by side, each on its own   *)
(* snapshot; a step is one pass of one call                                *)
(***************************************************************************)

Callers == {1, 2}

\* the longest snapshot of a caller
MaxSnapshotAssets == 2

\* the records the snapshots are drawn from
SnapshotPool ==
  { AssetOf(TagOf(SSBAS, <<"M", "o">>, FY2025, T01),
            <<"1", "0", "0", "0">>, LabA),
    AssetOf(TagOf(<<"s", "s", "b", "a", "s">>, <<"m", "o">>, FY2025, T01),
            <<"7", "5">>, <<>>),
    AssetOf(<<"R", "A", "N", "D", "O", "M", "-", "0", "0", "1">>,
            <<"9", "0">>, LabA) }

\* the object at position i of the snapshot of caller c
InSnapshot(a, i, c) ==
  [snapshot |-> c, ref |-> i, assetTagging |-> a.assetTagging,
   originalCost |-> a.originalCost, location |-> a.location]

\* the parameter and the locals of a call at its entry
FrameOf(f, c) ==
  [pc |-> "partition",
   assets |-> [i \in DOMAIN f |-> InSnapshot(f[i], i, c)],
   peripheralAssets |-> <<>>,
   ungroupedAssets |-> <<>>,
   setsMap |-> <<>>,
   desktopSets |-> <<>>]

Snapshots ==
  UNION { [1..n -> SnapshotPool] : n \in 0..MaxSnapshotAssets }

InitTwo ==
  /\ pc = "callers"
  /\ \E f1 \in Snapshots : \E f2 \in Snapshots :
       frames = [c \in Callers |-> IF c = 1 THEN FrameOf(f1, c) ELSE FrameOf(f2, c)]
  /\ assets = <<>>
  /\ peripheralAssets = <<>>
  /\ ungroupedAssets = <<>>
  /\ setsMap = <<>>
  /\ desktopSets = <<>>
  /\ tag = <<>>
  /\ info = NullInfo
  /\ typeName = NULL
  /\ previous = <<>>
  /\ NoServer /\ NoList

\* what a step of a caller leaves alone
besideFrames ==
  <<pc, tag, info, assets, peripheralAssets, ungroupedAssets, setsMap,
    desktopSets, typeName, previous, store, now, requests, listAssets,
    searchTerm, assetClassFilter, locationFilter, sortField, sortDirection,
    selectedAssets>>

PartitionOf(c) ==
  /\ frames[c].pc = "partition"
  /\ frames' = [frames EXCEPT
                  ![c].peripheralAssets = PeripheralsOf(frames[c].assets),
                  ![c].ungroupedAssets = UngroupedOf(frames[c].assets),
                  ![c].pc = "bucket"]
  /\ UNCHANGED besideFrames

\* the bucket pass on one map for all callers
BucketOfSharedMap(c) ==
  /\ frames[c].pc = "bucket"
  /\ \E d \in Callers \ {c} :
       frames' = [frames EXCEPT
                   ![c].setsMap = BucketAll(frames[d].setsMap,
                                            frames[c].peripheralAssets),
                   ![c].pc = "reduce"]
  /\ UNCHANGED besideFrames

BucketOf(c) ==
  /\ frames[c].pc = "bucket"
  /\ frames' = [frames EXCEPT
                  ![c].setsMap = BucketAll(<<>>, frames[c].peripheralAssets),
                  ![c].pc = "reduce"]
  /\ UNCHANGED besideFrames

ReduceOf(c) ==
  /\ frames[c].pc = "reduce"
  /\ frames' = [frames EXCEPT
                  ![c].desktopSets =
                     [i \in 1..Len(frames[c].setsMap) |-> BuildSet(frames[c].setsMap[i])],
                  ![c].pc = "sort"]
  /\ UNCHANGED besideFrames

SortOf(c) ==
  /\ frames[c].pc = "sort"
  /\ frames' = [frames EXCEPT
                  ![c].desktopSets = SortSets(frames[c].desktopSets),
                  ![c].pc = "done"]
  /\ UNCHANGED besideFrames

NextTwo ==
  \E c \in Callers : PartitionOf(c) \/ BucketOf(c) \/ ReduceOf(c) \/ SortOf(c)

SpecTwo == InitTwo /\ [][NextTwo]_vars

(***************************************************************************)
(* The asset routes of the server (supabase/functions/server/index.tsx).   *)
(* A handler runs up to an await of the key-value store and goes on after  *)
(* it; the handlers of the requests in progress take their steps in any    *)
(* order.  A record carries the fields assetTagging and originalCost (the  *)
(* other text and number fields are treated the same way by the code) and  *)
(* the two time stamps; the requests send no dateOfPurchase, so that its   *)
(* test is passed over.  The time of day moves on with every write.        *)
(***************************************************************************)

\* the most requests in one run
MaxRequests == 2

\* `asset:${...}`
AssetKey(assetTagging) == <<"a", "s", "s", "e", "t", ":">> \o assetTagging

\* kv.get: the value under the key, here <<value>>, or nothing, here <<>>
kvGet(kvStore, key) == IF key \in DOMAIN kvStore THEN <<kvStore[key]>> ELSE <<>>

\* kv.set: the value is stored under the key, in place of an earlier one
kvSet(kvStore, key, value) ==
  [k \in (DOMAIN kvStore) \cup {key} |-> IF k = key THEN value ELSE kvStore[k]]

\* kv.del
kvDel(kvStore, key) == [k \in (DOMAIN kvStore) \ {key} |-> kvStore[k]]

\* String.prototype.replace(/,/g, "")
RemoveCommas(s) == SelectSeq(s, LAMBDA ch : ch # ",")

TaggingRequired == "Asset Tagging is required"

CostNotANumber == "originalCost must be a valid number"

\* the asset keeps the tag as it was sent
validateAssetUntrimmed(data) ==
  LET tagError ==
        IF ~Truthy(data.assetTagging) \/ Trim(data.assetTagging) = <<>>
          THEN <<TaggingRequired>> ELSE <<>>
      costError ==
        IF Truthy(data.originalCost)
             /\ parseFloat(RemoveCommas(data.originalCost)).nan
          THEN <<CostNotANumber>> ELSE <<>>
      errors == tagError \o costError
  IN  IF Len(errors) > 0
        THEN [valid |-> FALSE, errors |-> errors, asset |-> <<>>]
        ELSE [valid |-> TRUE, errors |-> <<>>,
              asset |-> <<[assetTagging |-> data.assetTagging,
                           originalCost |->
                             IF Truthy(data.originalCost)
                               THEN Trim(RemoveCommas(data.originalCost))
                               ELSE <<>>]>>]

\* validateAsset: the errors, or the normalised asset as <<asset>>
validateAsset(data) ==
  LET tagError ==
        IF ~Truthy(data.assetTagging) \/ Trim(data.assetTagging) = <<>>
          THEN <<TaggingRequired>> ELSE <<>>
      costError ==
        IF Truthy(data.originalCost)
             /\ parseFloat(RemoveCommas(data.originalCost)).nan
          THEN <<CostNotANumber>> ELSE <<>>
      errors == tagError \o costError
  IN  IF Len(errors) > 0
        THEN [valid |-> FALSE, errors |-> errors, asset |-> <<>>]
        ELSE [valid |-> TRUE, errors |-> <<>>,
              asset |-> <<[assetTagging |-> Trim(data.assetTagging),
                           originalCost |->
                             IF Truthy(data.originalCost)
                               THEN Trim(RemoveCommas(data.originalCost))
                               ELSE <<>>]>>]

\* { ...asset, createdAt, updatedAt }
Stamped(asset, createdAt, updatedAt) ==
  [assetTagging |-> asset.assetTagging, originalCost |-> asset.originalCost,
   createdAt |-> createdAt, updatedAt |-> updatedAt]

\* { ...body, assetTagging: code }
WithTagging(body, code) ==
  [assetTagging |-> code, originalCost |-> body.originalCost]

TagA1 == <<"A", "1">>
TagB2 == <<"B", "2">>

BodyOf(t, cost) == [assetTagging |-> t, originalCost |-> cost]

NoBody == BodyOf(NULL, NULL)

\* body.assets that is no array
NotAnArray == <<BodyOf(NULL, <<"n", "o", "t", " ", "a", "n", " ", "a", "r", "r", "a", "y">>)>>

Post(body) == [method |-> "POST", code |-> <<>>, body |-> body, assets |-> <<>>]

Put(code, body) == [method |-> "PUT", code |-> code, body |-> body, assets |-> <<>>]

Delete(code) == [method |-> "DELETE", code |-> code, body |-> NoBody, assets |-> <<>>]

BulkImport(as) == [method |-> "BULK", code |-> <<>>, body |-> NoBody, assets |-> as]

\* the requests the clients send
RequestPool ==
  { Post(BodyOf(<<" ">> \o TagA1 \o <<" ">>, <<"1", ",", "0", "0", "0">>)),
    Post(BodyOf(TagA1, <<"7", "5">>)),
    Post(BodyOf(<<" ", "\t">>, <<"7", "5">>)),
    Post(BodyOf(NULL, NULL)),
    Post(BodyOf(TagB2, <<"a", "b", "c">>)),
    Put(TagA1, BodyOf(TagB2, <<"9", "0">>)),
    Put(TagA1, BodyOf(NULL, <<"a", "b", "c">>)),
    Put(<<" ">> \o TagA1, BodyOf(NULL, NULL)),
    Delete(TagA1),
    BulkImport(NotAnArray),
    BulkImport(<<>>),
    BulkImport(<<BodyOf(<<"\t">> \o TagB2 \o <<" ">>, NULL), BodyOf(<<>>, <<"7", "5">>),
                 BodyOf(TagA1, <<"3", "0", "0">>)>>) }

\* a request as it reaches its handler
Received(r) ==
  [method |-> r.method, code |-> r.code, body |-> r.body, assets |-> r.assets,
   pc |-> "received", asset |-> <<>>, existing |-> <<>>, status |-> 0,
   error |-> "", index |-> 1, success |-> 0, failed |-> 0]

InitServer ==
  /\ pc = "server"
  /\ \E n \in 1..MaxRequests : \E f \in [1..n -> RequestPool] :
       requests = [i \in 1..n |-> Received(f[i])]
  /\ store = <<>>
  /\ now = 1
  /\ assets = <<>>
  /\ peripheralAssets = <<>>
  /\ ungroupedAssets = <<>>
  /\ setsMap = <<>>
  /\ desktopSets = <<>>
  /\ tag = <<>>
  /\ info = NullInfo
  /\ typeName = NULL
  /\ previous = <<>>
  /\ NoCallers /\ NoList

\* what a step of a handler leaves alone
besideServer ==
  <<pc, tag, info, assets, peripheralAssets, ungroupedAssets, setsMap,
    desktopSets, typeName, previous, frames, listAssets, searchTerm,
    assetClassFilter, locationFilter, sortField, sortDirection, selectedAssets>>

\* c.json({ error }, status)
Rejected(r, status, error) ==
  [r EXCEPT !.status = status, !.error = error, !.pc = "responded"]

\* c.json({ ... }): status 200
Answered(r) == [r EXCEPT !.status = 200, !.pc = "responded"]

\* POST /assets up to the await of kv.get
PostValidate(i) ==
  LET r == requests[i]
      validation == validateAsset(r.body)
  IN  /\ r.method = "POST" /\ r.pc = "received"
      /\ requests' =
           [requests EXCEPT ![i] =
              IF ~validation.valid
                THEN Rejected(r, 400, validation.errors[1])
                ELSE [r EXCEPT !.asset = validation.asset, !.pc = "get"]]
      /\ UNCHANGED <<store, now>>
      /\ UNCHANGED besideServer

\* POST /assets: kv.get and the test of its result
PostGet(i) ==
  LET r == requests[i]
      existing == kvGet(store, AssetKey(r.asset[1].assetTagging))
  IN  /\ r.method = "POST" /\ r.pc = "get"
      /\ requests' =
           [requests EXCEPT ![i] =
              IF existing # <<>>
                THEN Rejected(r, 400, "Asset tagging already exists")
                ELSE [r EXCEPT !.existing = existing, !.pc = "set"]]
      /\ UNCHANGED <<store, now>>
      /\ UNCHANGED besideServer

\* POST /assets: kv.set and the answer
PostSet(i) ==
  LET r == requests[i]
      asset == Stamped(r.asset[1], now, now)
  IN  /\ r.method = "POST" /\ r.pc = "set"
      /\ store' = kvSet(store, AssetKey(asset.assetTagging), asset)
      /\ now' = now + 1
      /\ requests' = [requests EXCEPT ![i] = Answered([r EXCEPT !.asset = <<asset>>])]
      /\ UNCHANGED besideServer

\* PUT /assets/:code: kv.get, the test of its result and the validation
PutGet(i) ==
  LET r == requests[i]
      existing == kvGet(store, AssetKey(r.code))
      validation == validateAsset(WithTagging(r.body, r.code))
  IN  /\ r.method = "PUT" /\ r.pc = "received"
      /\ requests' =
           [requests EXCEPT ![i] =
              IF existing = <<>> THEN Rejected(r, 404, "Asset not found")
              ELSE IF ~validation.valid
                THEN Rejected([r EXCEPT !.existing = existing], 400,
                              validation.errors[1])
              ELSE [r EXCEPT !.existing = existing, !.asset = validation.asset,
                             !.pc = "set"]]
      /\ UNCHANGED <<store, now>>
      /\ UNCHANGED besideServer

\* PUT /assets/:code: kv.set and the answer
PutSet(i) ==
  LET r == requests[i]
      asset == Stamped(WithTagging(r.asset[1], r.code), r.existing[1].createdAt, now)
  IN  /\ r.method = "PUT" /\ r.pc = "set"
      /\ store' = kvSet(store, AssetKey(r.code), asset)
      /\ now' = now + 1
      /\ requests' = [requests EXCEPT ![i] = Answered([r EXCEPT !.asset = <<asset>>])]
      /\ UNCHANGED besideServer

\* DELETE /assets/:code: kv.get and the test of its result
DeleteGet(i) ==
  LET r == requests[i]
      existing == kvGet(store, AssetKey(r.code))
  IN  /\ r.method = "DELETE" /\ r.pc = "received"
      /\ requests' =
           [requests EXCEPT ![i] =
              IF existing = <<>> THEN Rejected(r, 404, "Asset not found")
              ELSE [r EXCEPT !.existing = existing, !.pc = "del"]]
      /\ UNCHANGED <<store, now>>
      /\ UNCHANGED besideServer

\* DELETE /assets/:code: kv.del and the answer
DeleteDel(i) ==
  LET r == requests[i]
  IN  /\ r.method = "DELETE" /\ r.pc = "del"
      /\ store' = kvDel(store, AssetKey(r.code))
      /\ requests' = [requests EXCEPT ![i] = Answered(r)]
      /\ UNCHANGED now
      /\ UNCHANGED besideServer

\* POST /assets/bulk-import up to the loop
BulkStart(i) ==
  LET r == requests[i]
  IN  /\ r.method = "BULK" /\ r.pc = "received"
      /\ requests' =
           [requests EXCEPT ![i] =
              IF r.assets = NotAnArray \/ Len(r.assets) = 0
                THEN Rejected(r, 400, "Invalid assets array")
                ELSE [r EXCEPT !.pc = "item"]]
      /\ UNCHANGED <<store, now>>
      /\ UNCHANGED besideServer

\* POST /assets/bulk-import: one turn of the loop, and the answer after the
\* last one
BulkItem(i) ==
  LET r == requests[i]
      validation == validateAsset(r.assets[r.index])
      last == r.index = Len(r.assets)
      counted == IF validation.valid
                   THEN [r EXCEPT !.success = @ + 1, !.index = @ + 1]
                   ELSE [r EXCEPT !.failed = @ + 1, !.index = @ + 1]
  IN  /\ r.method = "BULK" /\ r.pc = "item"
      /\ IF validation.valid
           THEN LET assetData == Stamped(validation.asset[1], now, now)
                IN  /\ store' = kvSet(store, AssetKey(assetData.assetTagging), assetData)
                    /\ now' = now + 1
           ELSE UNCHANGED <<store, now>>
      /\ requests' = [requests EXCEPT ![i] = IF last THEN Answered(counted) ELSE counted]
      /\ UNCHANGED besideServer

NextServer ==
  \/ \E i \in DOMAIN requests : PostValidate(i)
  \/ \E i \in DOMAIN requests : PostGet(i)
  \/ \E i \in DOMAIN requests : PostSet(i)
  \/ \E i \in DOMAIN requests : PutGet(i)
  \/ \E i \in DOMAIN requests : PutSet(i)
  \/ \E i \in DOMAIN requests : DeleteGet(i)
  \/ \E i \in DOMAIN requests : DeleteDel(i)
  \/ \E i \in DOMAIN requests : BulkStart(i)
  \/ \E i \in DOMAIN requests : BulkItem(i)

SpecServer == InitServer /\ [][NextServer]_vars

(***************************************************************************)
(* The selection of the AssetList component (components/AssetList.tsx).    *)
(* A record carries the fields assetTagging, assetClass, location and      *)
(* originalCost.                                                           *)
(***************************************************************************)

\* the longest list the server returns
MaxListAssets == 2

All == <<"a", "l", "l">>

ClassIT == <<"I", "T">>
ClassFurniture == <<"F", "u", "r", "n", "i", "t", "u", "r", "e">>

ListAssetOf(t, class, loc, cost) ==
  [assetTagging |-> t, assetClass |-> class, location |-> loc,
   originalCost |-> cost]

\* the records of the register
ListPool ==
  { ListAssetOf(TagOf(SSBAS, <<"M", "o">>, FY2025, T01), ClassIT, LabA,
                <<"1", "0", "0", "0">>),
    ListAssetOf(TagOf(SSBAS, <<"K", "o">>, FY2025, T01), ClassIT, LabB,
                <<"2", "5", "0", ".", "5", "0">>),
    ListAssetOf(TagA1, ClassFurniture, LabA, <<>>) }

\* the search terms typed
SearchTerms == {<<>>, <<"K", "o">>, <<"l", "a", "b">>, <<"z", "z">>}

\* String.prototype.toLowerCase, for the letters of the records and terms
ToLowerCase(s) ==
  [i \in 1..Len(s) |->
     IF \E c \in DOMAIN UpperOf : UpperOf[c] = s[i]
       THEN CHOOSE c \in DOMAIN UpperOf : UpperOf[c] = s[i]
       ELSE IF s[i] = "L" THEN "l"
       ELSE IF s[i] = "I" THEN "i"
       ELSE IF s[i] = "F" THEN "f"
       ELSE s[i]]

\* String.prototype.includes
Includes(s, part) ==
  \E i \in 1..(Len(s) - Len(part) + 1) : SubSeq(s, i, i + Len(part) - 1) = part

\* field && field.toLowerCase().includes(search)
FieldIncludes(field, search) == Truthy(field) /\ Includes(ToLowerCase(field), search)

\* the predicate of the search filter
MatchesSearch(asset, search) ==
  \/ FieldIncludes(asset.assetTagging, search)
  \/ FieldIncludes(asset.assetClass, search)
  \/ FieldIncludes(asset.location, search)

\* -1, 0, 1 for the sign of a difference of two numbers, 0 when one is NaN
NumberCompare(a, b) ==
  IF a.nan \/ b.nan THEN 0
  ELSE IF a.value < b.value THEN 0 - 1
  ELSE IF a.value > b.value THEN 1
  ELSE 0

\* a.originalCost || "0"
CostOrZero(asset) == IF Truthy(asset.originalCost) THEN asset.originalCost ELSE <<"0">>

\* the comparator given to filtered.sort
ListCompare(a, b) ==
  IF sortField = "assetTagging"
    THEN IF sortDirection = "asc"
           THEN localeCompare(a.assetTagging, b.assetTagging)
           ELSE localeCompare(b.assetTagging, a.assetTagging)
  ELSE IF sortField = "originalCost"
    THEN IF sortDirection = "asc"
           THEN NumberCompare(parseFloat(CostOrZero(a)), parseFloat(CostOrZero(b)))
           ELSE NumberCompare(parseFloat(CostOrZero(b)), parseFloat(CostOrZero(a)))
  ELSE 0

RECURSIVE InsertListed(_, _)
InsertListed(sorted, x) ==
  IF sorted = <<>> THEN <<x>>
  ELSE IF ListCompare(sorted[Len(sorted)], x) <= 0 THEN Append(sorted, x)
  ELSE Append(InsertListed(SubSeq(sorted, 1, Len(sorted) - 1), x),
              sorted[Len(sorted)])

\* filtered.sort with the comparator: a stable sort
RECURSIVE SortListed(_)
SortListed(list) ==
  IF list = <<>> THEN <<>>
  ELSE InsertListed(SortListed(SubSeq(list, 1, Len(list) - 1)), list[Len(list)])

\* the memoised list the table shows
filteredAssets ==
  LET searched ==
        IF Truthy(searchTerm)
          THEN SelectSeq(listAssets,
                         LAMBDA a : MatchesSearch(a, ToLowerCase(searchTerm)))
          ELSE listAssets
      ofClass ==
        IF Truthy(assetClassFilter) /\ assetClassFilter # All
          THEN SelectSeq(searched, LAMBDA a : a.assetClass = assetClassFilter)
          ELSE searched
      atLocation ==
        IF Truthy(locationFilter) /\ locationFilter # All
          THEN SelectSeq(ofClass, LAMBDA a : a.location = locationFilter)
          ELSE ofClass
  IN  SortListed(atLocation)

allSelected ==
  Len(filteredAssets) > 0 /\ Len(selectedAssets) = Len(filteredAssets)

someSelected ==
  Len(selectedAssets) > 0 /\ Len(selectedAssets) < Len(filteredAssets)

\* Array.from(new Set(assets.map(...).filter(Boolean)))
uniqueAssetClasses ==
  {listAssets[i].assetClass : i \in 1..Len(listAssets)} \ {NULL, <<>>}

uniqueLocations ==
  {listAssets[i].location : i \in 1..Len(listAssets)} \ {NULL, <<>>}

InitList ==
  /\ pc = "list"
  /\ listAssets = <<>>
  /\ searchTerm = <<>>
  /\ assetClassFilter = All
  /\ locationFilter = All
  /\ sortField = "assetTagging"
  /\ sortDirection = "asc"
  /\ selectedAssets = <<>>
  /\ assets = <<>>
  /\ peripheralAssets = <<>>
  /\ ungroupedAssets = <<>>
  /\ setsMap = <<>>
  /\ desktopSets = <<>>
  /\ tag = <<>>
  /\ info = NullInfo
  /\ typeName = NULL
  /\ previous = <<>>
  /\ NoCallers /\ NoServer

\* what a step of the component leaves alone
besideList ==
  <<pc, tag, info, assets, peripheralAssets, ungroupedAssets, setsMap,
    desktopSets, typeName, previous, frames, store, now, requests>>

\* fetchAssets: setAssets(data.assets), the records of the register at that time
fetchAssets ==
  /\ \E n \in 0..MaxListAssets : \E f \in [1..n -> ListPool] :
       Distinct(f) /\ listAssets' = f
  /\ UNCHANGED <<searchTerm, assetClassFilter, locationFilter, sortField,
                 sortDirection, selectedAssets>>
  /\ UNCHANGED besideList

\* the search box
SetSearchTerm ==
  /\ \E term \in SearchTerms : searchTerm' = term
  /\ UNCHANGED <<listAssets, assetClassFilter, locationFilter, sortField,
                 sortDirection, selectedAssets>>
  /\ UNCHANGED besideList

\* the asset class select: an item of the list it shows
SetAssetClassFilter ==
  /\ \E value \in {All} \cup uniqueAssetClasses : assetClassFilter' = value
  /\ UNCHANGED <<listAssets, searchTerm, locationFilter, sortField,
                 sortDirection, selectedAssets>>
  /\ UNCHANGED besideList

\* the location select: an item of the list it shows
SetLocationFilter ==
  /\ \E value \in {All} \cup uniqueLocations : locationFilter' = value
  /\ UNCHANGED <<listAssets, searchTerm, assetClassFilter, sortField,
                 sortDirection, selectedAssets>>
  /\ UNCHANGED besideList

\* a click on a column header
handleSort ==
  /\ \E field \in {"assetTagging", "originalCost"} :
       IF sortField = field
         THEN /\ sortDirection' = (IF sortDirection = "asc" THEN "desc" ELSE "asc")
              /\ UNCHANGED sortField
         ELSE /\ sortField' = field
              /\ sortDirection' = "asc"
  /\ UNCHANGED <<listAssets, searchTerm, assetClassFilter, locationFilter,
                 selectedAssets>>
  /\ UNCHANGED besideList

\* a click on the checkbox of the table header, which shows allSelected
handleSelectAll ==
  /\ LET checked == ~allSelected
     IN  selectedAssets' =
           IF checked
             THEN [i \in 1..Len(filteredAssets) |-> filteredAssets[i].assetTagging]
             ELSE <<>>
  /\ UNCHANGED <<listAssets, searchTerm, assetClassFilter, locationFilter,
                 sortField, sortDirection>>
  /\ UNCHANGED besideList

\* Array.prototype.includes
ArrayIncludes(array, x) == \E i \in 1..Len(array) : array[i] = x

\* a click on the checkbox of a row of the table
handleSelectAsset ==
  /\ \E i \in 1..Len(filteredAssets) :
       LET assetTagging == filteredAssets[i].assetTagging
           checked == ~ArrayIncludes(selectedAssets, assetTagging)
       IN  selectedAssets' =
             IF checked
               THEN Append(selectedAssets, assetTagging)
               ELSE SelectSeq(selectedAssets, LAMBDA id : id # assetTagging)
  /\ UNCHANGED <<listAssets, searchTerm, assetClassFilter, locationFilter,
                 sortField, sortDirection>>
  /\ UNCHANGED besideList

\* the Clear Selection button, shown while something is selected
ClearSelection ==
  /\ Len(selectedAssets) > 0
  /\ selectedAssets' = <<>>
  /\ UNCHANGED <<listAssets, searchTerm, assetClassFilter, locationFilter,
                 sortField, sortDirection>>
  /\ UNCHANGED besideList

NextList ==
  \/ fetchAssets
  \/ SetSearchTerm
  \/ SetAssetClassFilter
  \/ SetLocationFilter
  \/ handleSort
  \/ handleSelectAll
  \/ handleSelectAsset
  \/ ClearSelection

SpecList == InitList /\ [][NextList]_vars

(***************************************************************************)
(* One call of parseAssetTag                                               *)
(***************************************************************************)

InitParse ==
  /\ pc = "parse"
  /\ tag \in TagSet
  /\ info = NullInfo
  /\ assets = <<>>
  /\ peripheralAssets = <<>>
  /\ ungroupedAssets = <<>>
  /\ setsMap = <<>>
  /\ desktopSets = <<>>
  /\ typeName = NULL
  /\ previous = <<>>
  /\ NoCallers /\ NoServer /\ NoList

ParseTag ==
  /\ pc = "parse"
  /\ info' = parseAssetTag(tag)
  /\ pc' = "parsed"
  /\ UNCHANGED others
  /\ UNCHANGED <<tag, assets, peripheralAssets, ungroupedAssets, setsMap,
                 desktopSets, typeName, previous>>

\* getPeripheralTypeName applied to the parsed type
GetTypeName ==
  /\ pc = "parsed"
  /\ typeName' = getPeripheralTypeName(info.type)
  /\ pc' = "named"
  /\ UNCHANGED others
  /\ UNCHANGED <<tag, info, assets, peripheralAssets, ungroupedAssets, setsMap,
                 desktopSets, previous>>

NextParse == ParseTag \/ GetTypeName

SpecParse == InitParse /\ [][NextParse]_vars

(***************************************************************************)
(* Properties                                                              *)
(***************************************************************************)

Done == pc = "done"

Parsed == pc = "parsed"

UpperSeq(s) == [i \in 1..Len(s) |-> Canonicalize(s[i])]

\* s without its leading and trailing white space, by the outermost other characters
Stripped(s) ==
  LET inked == {i \in 1..Len(s) : s[i] \notin WhiteSpace}
  IN  IF inked = {} THEN <<>>
      ELSE SubSeq(s, CHOOSE i \in inked : \A j \in inked : i <= j,
                     CHOOSE i \in inked : \A j \in inked : j <= i)

\* the segments of s between the occurrences of ch
RECURSIVE SplitOn(_, _)
SplitOn(s, ch) ==
  IF \A i \in 1..Len(s) : s[i] # ch THEN <<s>>
  ELSE LET i == CHOOSE i \in 1..Len(s) : s[i] = ch /\ \A j \in 1..(i - 1) : s[j] # ch
       IN  <<SubSeq(s, 1, i - 1)>> \o SplitOn(SubSeq(s, i + 1, Len(s)), ch)

AllDigits(s) == \A i \in 1..Len(s) : s[i] \in Digit

\* SSBAS/{Mo|Ko|Ro|Co}/{4 digits}-{2 digits}/T{1 or more digits}, letters in any case
GrammarConforms(t) ==
  LET segs == SplitOn(Stripped(t), "/")
  IN  /\ Len(segs) = 4
      /\ UpperSeq(segs[1]) = SSBAS
      /\ UpperSeq(segs[2]) \in {<<"M", "O">>, <<"K", "O">>, <<"R", "O">>, <<"C", "O">>}
      /\ Len(segs[3]) = 7
      /\ AllDigits(SubSeq(segs[3], 1, 4))
      /\ segs[3][5] = "-"
      /\ AllDigits(SubSeq(segs[3], 6, 7))
      /\ Len(segs[4]) >= 2
      /\ segs[4][1] \in {"T", "t"}
      /\ AllDigits(Tail(segs[4]))

\* the places <<k, j>> of the result's sets: member j of set k
SetPlaces ==
  {p \in (1..Len(desktopSets)) \X (1..Len(assets)) :
     p[2] <= Len(desktopSets[p[1]].allAssets)}

PlacesInSets(a) == {p \in SetPlaces : desktopSets[p[1]].allAssets[p[2]] = a}

PlacesUngrouped(a) == {j \in 1..Len(ungroupedAssets) : ungroupedAssets[j] = a}

\* C1: every asset of the input is in exactly one place of the result:
\* in ungroupedAssets when its tag does not conform, in the allAssets of one set
\* otherwise; the sizes of the result add up to the size of the input.
C1_ExactlyOnePlace ==
  Done =>
    /\ \A i \in 1..Len(assets) :
         LET a == assets[i]
         IN  IF parseAssetTag(a.assetTagging).isPeripheral
               THEN /\ Cardinality(PlacesInSets(a)) = 1
                    /\ PlacesUngrouped(a) = {}
               ELSE /\ Cardinality(PlacesUngrouped(a)) = 1
                    /\ PlacesInSets(a) = {}
    /\ Len(ungroupedAssets) + Cardinality(SetPlaces) = Len(assets)

\* a result with an ungrouped asset and a set that holds the same tag twice
C1_Witness ==
  /\ Done
  /\ Len(ungroupedAssets) >= 1
  /\ \E k \in 1..Len(desktopSets) :
       \E i, j \in 1..Len(desktopSets[k].allAssets) :
         /\ i < j
         /\ desktopSets[k].allAssets[i].assetTagging
              = desktopSets[k].allAssets[j].assetTagging

\* C2: the completeness of every set is one of 0, 25, 50, 75, 100.
C2_CompletenessRange ==
  Done => \A k \in 1..Len(desktopSets) :
            desktopSets[k].completeness \in {0, 25, 50, 75, 100}

\* C3: the keys of components are among monitor, keyboard, mouse, cpu.
C3_ComponentKeys ==
  Done => \A k \in 1..Len(desktopSets) :
            /\ DOMAIN desktopSets[k].components \subseteq SlotNames
            /\ Cardinality(DOMAIN desktopSets[k].components) <= 4

\* the slot of a type code, the code read in any letter case
SlotOfCode(type) ==
  CASE UpperSeq(type) = <<"M", "O">> -> monitor
    [] UpperSeq(type) = <<"K", "O">> -> keyboard
    [] UpperSeq(type) = <<"R", "O">> -> mouse
    [] UpperSeq(type) = <<"C", "O">> -> cpu

MembersOf(set) == {set.allAssets[j] : j \in 1..Len(set.allAssets)}

TypeOf(a) == parseAssetTag(a.assetTagging).type

\* C4: for every member of a set, the slot of the member's type code is filled
\* with a member of that set that has the same type code.
C4_SlotOfType ==
  Done => \A k \in 1..Len(desktopSets) :
            \A a \in MembersOf(desktopSets[k]) :
              LET slot == SlotOfCode(TypeOf(a))
                  comps == desktopSets[k].components
              IN  /\ slot \in DOMAIN comps
                  /\ comps[slot] \in MembersOf(desktopSets[k])
                  /\ SlotOfCode(TypeOf(comps[slot])) = slot

\* C5: isPeripheral is true exactly for the tags that conform to the grammar
\* after trimming, in any letter case; every other tag parses to the all-null
\* result.
C5_ParseExactlyGrammar ==
  Parsed =>
    /\ info.isPeripheral <=> GrammarConforms(tag)
    /\ ~GrammarConforms(tag) => info = NullInfo

\* a conforming tag with white space on both sides and lower-case letters
C5_Witness ==
  /\ Parsed
  /\ info.isPeripheral
  /\ tag # <<>> /\ Head(tag) \in WhiteSpace /\ tag[Len(tag)] \in WhiteSpace
  /\ info.setId = <<"t", "0", "1">>

\* C6: the type of a parse result is Mo, Ko, Ro, Co or null.
C6_TypeIsCode ==
  Parsed => info.type \in TypeAlternatives \cup {NULL}

\* C7: isPeripheral is true iff type, financialYear and setId are all
\* present, and no result has only some of the three.
C7_AllOrNothing ==
  Parsed =>
    LET present == {f \in {"type", "financialYear", "setId"} : info[f] # NULL}
    IN  /\ info.isPeripheral <=> Cardinality(present) = 3
        /\ Cardinality(present) \in {0, 3}

\* a conforming tag has been parsed
C7_Witness == Parsed /\ info.isPeripheral /\ info.type = <<"K", "O">>

\* C8: the financialYear and setId of every set are those that parseAssetTag
\* returns for every asset of the set's allAssets.
C8_KeySplit ==
  Done => \A k \in 1..Len(desktopSets) :
            \A a \in MembersOf(desktopSets[k]) :
              /\ parseAssetTag(a.assetTagging).financialYear
                   = desktopSets[k].financialYear
              /\ parseAssetTag(a.assetTagging).setId = desktopSets[k].setId

\* sets of two financial years, one of them with two members
C8_Witness ==
  /\ Done
  /\ \E k, l \in 1..Len(desktopSets) :
       /\ desktopSets[k].financialYear # desktopSets[l].financialYear
       /\ Len(desktopSets[k].allAssets) >= 2

\* the property name the code files an asset under
KeyOf(a) == ToPropertyKey(getComponentKey(TypeOf(a)))

\* C9: when several members of a set map to one slot, the call completes and
\* the slot holds the last of them in input order; the earlier ones are in
\* allAssets and in no slot.
C9_LastWriteWins ==
  /\ pc \in {"partition", "bucket", "reduce", "sort", "done"}
  /\ Done =>
       \A k \in 1..Len(desktopSets) :
         LET all == desktopSets[k].allAssets
             comps == desktopSets[k].components
         IN  \A j \in 1..Len(all) :
               LET later == {i \in (j + 1)..Len(all) : KeyOf(all[i]) = KeyOf(all[j])}
               IN  /\ KeyOf(all[j]) \in DOMAIN comps
                   /\ later = {} => comps[KeyOf(all[j])] = all[j]
                   /\ later # {} =>
                        \A l \in 1..Len(desktopSets) :
                          \A key \in DOMAIN desktopSets[l].components :
                            desktopSets[l].components[key] # all[j]

\* a set in which two members map to one slot
C9_Witness ==
  /\ Done
  /\ \E k \in 1..Len(desktopSets) :
       \E i, j \in 1..Len(desktopSets[k].allAssets) :
         /\ i < j
         /\ KeyOf(desktopSets[k].allAssets[i]) = KeyOf(desktopSets[k].allAssets[j])
         /\ desktopSets[k].components[KeyOf(desktopSets[k].allAssets[j])]
              = desktopSets[k].allAssets[j]

\* the peripheral kinds (as slot names) present among the members of a set
KindsOf(set) == {SlotOfCode(TypeOf(a)) : a \in MembersOf(set)}

\* C10: completeness is 25 times the number of distinct peripheral kinds among
\* the members, and exactly the slots of those kinds are populated.
C10_CompletenessCountsKinds ==
  Done => \A k \in 1..Len(desktopSets) :
            /\ desktopSets[k].completeness
                 = 25 * Cardinality(KindsOf(desktopSets[k]))
            /\ DOMAIN desktopSets[k].components = KindsOf(desktopSets[k])

\* the four tags SSBAS/{Mo,Ko,Ro,Co}/2025-26/T01
FourT01Tags == {TagOf(SSBAS, t, FY2025, T01) : t \in TypeAlternatives}

InputTags == {assets[i].assetTagging : i \in 1..Len(assets)}

\* C11: the four assets of set T01 of 2025-26 give exactly one set, named
\* "Desktop Set 1 (2025-26)".
C11_DisplayNameOfT01 ==
  (Done /\ Len(assets) = 4 /\ InputTags = FourT01Tags) =>
    /\ Len(desktopSets) = 1
    /\ desktopSets[1].displayName
         = DesktopSetPrefix \o <<"1", " ", "(">> \o FY2025 \o <<")">>

\* s without a leading "T"
StripLeadingT(s) == IF s # <<>> /\ Head(s) = "T" THEN Tail(s) ELSE s

CostAsNumber(cost) ==
  CASE cost = <<"1", "0", "0", "0">> -> 100000
    [] cost = <<"2", "5", "0", ".", "5", "0">> -> 25050
    [] cost = <<"7", "5">> -> 7500
    [] cost = <<"3", "0", "0">> -> 30000
    [] cost = <<"9", "0">> -> 9000
    [] OTHER -> 0

RECURSIVE SumOfCosts(_)
SumOfCosts(all) ==
  IF all = <<>> THEN 0
  ELSE CostAsNumber(Head(all).originalCost) + SumOfCosts(Tail(all))

\* C14: totalCost is the sum of the costs of all component assets of the set.
C14_TotalCostIsSum ==
  Done => \A k \in 1..Len(desktopSets) :
            desktopSets[k].totalCost = SumOfCosts(desktopSets[k].allAssets)

\* the distinct non-empty locations of the members of a set
LocationsOf(set) == {a.location : a \in MembersOf(set)} \ {NULL, <<>>}

\* C15: location is the one distinct non-empty location of the members, the
\* literal "Mixed Locations" when there are several, absent when there is none.
C15_Location ==
  Done => \A k \in 1..Len(desktopSets) :
            LET L == LocationsOf(desktopSets[k])
            IN  /\ Cardinality(L) = 1 => desktopSets[k].location \in L
                /\ Cardinality(L) > 1 =>
                     desktopSets[k].location
                       = <<"M", "i", "x", "e", "d", " ", "L", "o", "c", "a", "t",
                           "i", "o", "n", "s">>
                /\ L = {} => desktopSets[k].location = NULL

\* a set located at Lab A although one member has no location and one an empty one
C15_Witness ==
  /\ Done
  /\ \E k \in 1..Len(desktopSets) :
       /\ desktopSets[k].location = LabA
       /\ \E a \in MembersOf(desktopSets[k]) : a.location = NULL
       /\ \E a \in MembersOf(desktopSets[k]) : a.location = <<>>

\* the UTF-16 code units of the characters of financialYear and setId
CodeUnit(ch) ==
  CASE ch = "-" -> 45 [] ch = "T" -> 84 [] ch = "t" -> 116
    [] OTHER -> 48 + DigitValue(ch)

\* a < b as strings: by the first differing code unit, a proper prefix first
RECURSIVE StringLess(_, _)
StringLess(a, b) ==
  IF b = <<>> THEN FALSE
  ELSE IF a = <<>> THEN TRUE
  ELSE IF CodeUnit(Head(a)) # CodeUnit(Head(b))
    THEN CodeUnit(Head(a)) < CodeUnit(Head(b))
  ELSE StringLess(Tail(a), Tail(b))

\* C16 as stated: desktopSets is ordered by financialYear descending and then
\* setId ascending, both compared as strings.
C16_SortedAsStrings ==
  Done => \A i, j \in 1..Len(desktopSets) :
            i < j =>
              \/ StringLess(desktopSets[j].financialYear, desktopSets[i].financialYear)
              \/ /\ desktopSets[i].financialYear = desktopSets[j].financialYear
                 /\ StringLess(desktopSets[i].setId, desktopSets[j].setId)

\* C16 amended: desktopSets is ordered by financialYear descending and then
\* setId ascending, both in the collation order of localeCompare (text, not
\* numbers; of two set ids that differ in letter case only, the lower-case one
\* comes first).
C16_SortedByCollation ==
  Done => \A i, j \in 1..Len(desktopSets) :
            i < j =>
              \/ localeCompare(desktopSets[i].financialYear,
                               desktopSets[j].financialYear) > 0
              \/ /\ localeCompare(desktopSets[i].financialYear,
                                  desktopSets[j].financialYear) = 0
                 /\ localeCompare(desktopSets[i].setId, desktopSets[j].setId) < 0

\* four sets in the order 2025-26 t01, 2025-26 T01, 2024-25 T10, 2024-25 T2
C16_Witness ==
  /\ Done
  /\ Len(desktopSets) = 4
  /\ [k \in 1..4 |-> desktopSets[k].setId]
       = << <<"t", "0", "1">>, T01, <<"T", "1", "0">>, <<"T", "2">> >>
  /\ [k \in 1..4 |-> desktopSets[k].financialYear] = <<FY2025, FY2025, FY2024, FY2024>>

NoTagConforms == \A i \in 1..Len(assets) : ~GrammarConforms(assets[i].assetTagging)

\* a pass of the call is still to run: the guard of one of the four actions
PassToRun == pc \in {"partition", "bucket", "reduce", "sort"}

\* C17: a call that has not returned has a pass to run; on the empty list both
\* results are empty, and on a list without a conforming tag desktopSets is
\* empty and ungroupedAssets holds every input asset.
C17_Total ==
  /\ Done \/ PassToRun
  /\ Done =>
       /\ assets = <<>> => desktopSets = <<>> /\ ungroupedAssets = <<>>
       /\ NoTagConforms =>
            /\ desktopSets = <<>>
            /\ Len(ungroupedAssets) = Len(assets)
            /\ \A i \in 1..Len(assets) : PlacesUngrouped(assets[i]) # {}

\* the call has returned for a list of several assets, none of them conforming
C17_Witness ==
  /\ Done
  /\ Len(assets) >= 2
  /\ NoTagConforms
  /\ desktopSets = <<>>
  /\ ungroupedAssets = assets

Named == pc = "named"

\* C18: getPeripheralTypeName gives Monitor, Keyboard, Mouse, CPU for Mo, Ko,
\* Ro, Co and "Unknown" for null and for every other type parseAssetTag returns.
C18_TypeName ==
  Named =>
    typeName
      = CASE info.type = <<"M", "o">> -> <<"M", "o", "n", "i", "t", "o", "r">>
          [] info.type = <<"K", "o">> -> <<"K", "e", "y", "b", "o", "a", "r", "d">>
          [] info.type = <<"R", "o">> -> <<"M", "o", "u", "s", "e">>
          [] info.type = <<"C", "o">> -> <<"C", "P", "U">>
          [] OTHER -> <<"U", "n", "k", "n", "o", "w", "n">>

IsConforming(a) == parseAssetTag(a.assetTagging).isPeripheral

SameSet(a, b) ==
  \E k \in 1..Len(desktopSets) :
    a \in MembersOf(desktopSets[k]) /\ b \in MembersOf(desktopSets[k])

\* C19: getSetIdentifier is null exactly for the non-conforming tags; for
\* conforming ones it is the key of the asset's bucket, and two conforming
\* assets are in one set iff their identifiers are equal.
C19_SetIdentifier ==
  Done =>
    /\ \A i \in 1..Len(assets) :
         getSetIdentifier(assets[i].assetTagging) = NULL <=> ~IsConforming(assets[i])
    /\ \A k \in 1..Len(setsMap) :
         \A j \in 1..Len(setsMap[k].value) :
           getSetIdentifier(setsMap[k].value[j].assetTagging) = setsMap[k].key
    /\ \A i, j \in 1..Len(assets) :
         (IsConforming(assets[i]) /\ IsConforming(assets[j])) =>
           (SameSet(assets[i], assets[j])
              <=> getSetIdentifier(assets[i].assetTagging)
                    = getSetIdentifier(assets[j].assetTagging))

\* two conforming assets in different sets of one year, and a non-conforming
\* asset
C19_Witness ==
  /\ Done
  /\ \E i, k, l \in 1..Len(assets) :
       /\ IsConforming(assets[i])
       /\ IsConforming(assets[k])
       /\ ~SameSet(assets[i], assets[k])
       /\ parseAssetTag(assets[k].assetTagging).financialYear
            = parseAssetTag(assets[i].assetTagging).financialYear
       /\ getSetIdentifier(assets[l].assetTagging) = NULL

\* C20: no step of a call changes the input list or an input asset, and a
\* call repeated on the same input returns a value equal to the earlier one.
C20_NoSideEffects ==
  /\ [][assets' = assets]_vars
  /\ [](Done => \A k \in 1..Len(previous) : previous[k] = Result)

\* the second call has returned sets and ungrouped assets
C20_Witness ==
  /\ Done
  /\ Len(previous) = 1
  /\ Len(desktopSets) >= 2
  /\ Len(ungroupedAssets) >= 1
\* C22: the totalCost of a set does not depend on the order of the input: a
\* call on the same assets in another order gives every set of the same
\* financialYear and setId the same totalCost.
C22_TotalCostOrderIndependent ==
  Done =>
    \A k \in 1..Len(previous) :
      \A i \in 1..Len(previous[k].desktopSets) :
        \A j \in 1..Len(desktopSets) :
          LET before == previous[k].desktopSets[i]
              after == desktopSets[j]
          IN  (before.financialYear = after.financialYear
                 /\ before.setId = after.setId)
                => before.totalCost = after.totalCost
ParsedOf(a) == parseAssetTag(a.assetTagging)

\* C23: two conforming assets are in the same set iff their parsed
\* financialYear and setId are the same character for character; tags that
\* differ in the case of the set id letter only give two sets.
C23_ExactKeyBucketing ==
  Done =>
    \A i, j \in 1..Len(assets) :
      (IsConforming(assets[i]) /\ IsConforming(assets[j])) =>
        (SameSet(assets[i], assets[j])
           <=> /\ ParsedOf(assets[i]).financialYear = ParsedOf(assets[j]).financialYear
               /\ ParsedOf(assets[i]).setId = ParsedOf(assets[j]).setId)

\* assets of 2025-26 with the set ids T01 and t01 are in two sets
C23_Witness ==
  /\ Done
  /\ \E i, j \in 1..Len(assets) :
       /\ ParsedOf(assets[i]).financialYear = FY2025
       /\ ParsedOf(assets[j]).financialYear = FY2025
       /\ ParsedOf(assets[i]).setId = T01
       /\ ParsedOf(assets[j]).setId = <<"t", "0", "1">>
       /\ ~SameSet(assets[i], assets[j])
       /\ \E k \in 1..Len(desktopSets) : assets[j] \in MembersOf(desktopSets[k])

\* C24: no two sets of a result have the same financialYear and setId, and
\* every set comes strictly before the later ones under the sort comparator.
C24_DistinctKeys ==
  Done =>
    \A i, j \in 1..Len(desktopSets) :
      i < j =>
        /\ ~(desktopSets[i].financialYear = desktopSets[j].financialYear
               /\ desktopSets[i].setId = desktopSets[j].setId)
        /\ SetCompare(desktopSets[i], desktopSets[j]) < 0

\* a result of two sets whose set ids differ in letter case only, one of them
\* with several members
C24_Witness ==
  /\ Done
  /\ Len(desktopSets) >= 2
  /\ \E k \in 1..Len(desktopSets) : Len(desktopSets[k].allAssets) >= 2
  /\ \E k, l \in 1..Len(desktopSets) :
       /\ desktopSets[k].setId # desktopSets[l].setId
       /\ UpperSeq(desktopSets[k].setId) = UpperSeq(desktopSets[l].setId)

C26_SlotsHoldMembers ==
  Done =>
    \A k \in 1..Len(desktopSets) :
      \A key \in DOMAIN desktopSets[k].components :
        LET a == desktopSets[k].components[key]
        IN  /\ a \in MembersOf(desktopSets[k])
            /\ \A l \in 1..Len(desktopSets) :
                 l # k => a \notin MembersOf(desktopSets[l])
            /\ PlacesUngrouped(a) = {}

\* two sets with populated slots beside an ungrouped asset
C26_Witness ==
  /\ Done
  /\ Len(desktopSets) >= 2
  /\ Len(ungroupedAssets) >= 1
  /\ \A k \in 1..Len(desktopSets) : DOMAIN desktopSets[k].components # {}

\* the positions in the input of the assets of a list are ascending
InInputOrder(list) ==
  /\ \A i \in 1..Len(list) :
       list[i].ref \in 1..Len(assets) /\ assets[list[i].ref] = list[i]
  /\ \A i, j \in 1..Len(list) : i < j => list[i].ref < list[j].ref

\* C27: ungroupedAssets and the allAssets of every set list their assets in
\* the relative order of the input.
C27_InputOrderPreserved ==
  Done =>
    /\ InInputOrder(ungroupedAssets)
    /\ \A k \in 1..Len(desktopSets) : InInputOrder(desktopSets[k].allAssets)

\* the two members of a set stand on both sides of an ungrouped asset in the
\* input
C27_Witness ==
  /\ Done
  /\ Len(assets) = 3
  /\ Len(ungroupedAssets) = 1
  /\ ungroupedAssets[1] = assets[2]
  /\ \E k \in 1..Len(desktopSets) :
       desktopSets[k].allAssets = <<assets[1], assets[3]>>
\* the result of a call that runs alone on the list in
GroupAlone(in) ==
  LET map == BucketAll(<<>>, PeripheralsOf(in))
  IN  [desktopSets |-> SortSets([i \in 1..Len(map) |-> BuildSet(map[i])]),
       ungroupedAssets |-> UngroupedOf(in)]

\* C21: under every interleaving of the passes of two callers, a caller that
\* has returned has the result of a call alone on its own snapshot, made of
\* the objects of that snapshot only; no pass changes a snapshot.
C21_CallersIndependent ==
  \A c \in DOMAIN frames :
    /\ \A i \in 1..Len(frames[c].assets) :
         frames[c].assets[i].snapshot = c /\ frames[c].assets[i].ref = i
    /\ frames[c].pc = "done" =>
         /\ [desktopSets |-> frames[c].desktopSets,
             ungroupedAssets |-> frames[c].ungroupedAssets]
              = GroupAlone(frames[c].assets)
         /\ \A k \in 1..Len(frames[c].desktopSets) :
              \A a \in MembersOf(frames[c].desktopSets[k]) : a.snapshot = c
         /\ \A j \in 1..Len(frames[c].ungroupedAssets) :
              frames[c].ungroupedAssets[j].snapshot = c

\* both callers have returned a set, the second having run its bucket pass
\* between the passes of the first
C21_Witness ==
  /\ DOMAIN frames = Callers
  /\ \A c \in Callers : frames[c].pc = "done" /\ Len(frames[c].desktopSets) = 1
  /\ Len(frames[1].desktopSets[1].allAssets) = 2
  /\ Len(frames[2].desktopSets[1].allAssets) = 1
\* requests i and j are two POST /assets requests that carry the same tag
SameTagPosts(i, j) ==
  /\ i # j
  /\ requests[i].method = "POST" /\ requests[j].method = "POST"
  /\ requests[i].asset # <<>> /\ requests[j].asset # <<>>
  /\ requests[i].asset[1].assetTagging = requests[j].asset[1].assetTagging

\* no DELETE request has removed the record of the tag
NeverDeleted(t) ==
  \A d \in DOMAIN requests :
    ~(requests[d].method = "DELETE" /\ requests[d].code = t
        /\ requests[d].pc = "responded" /\ requests[d].status = 200)

\* C28: of the POST /assets requests that carry one tag, at most one answers
\* success while the record exists, and every other one that has answered
\* has answered 400 "Asset tagging already exists".
C28_CreatedAtMostOnce ==
  \A i, j \in DOMAIN requests :
    (/\ SameTagPosts(i, j)
     /\ NeverDeleted(requests[i].asset[1].assetTagging)
     /\ requests[i].pc = "responded" /\ requests[i].status = 200
     /\ requests[j].pc = "responded")
      => /\ requests[j].status = 400
         /\ requests[j].error = "Asset tagging already exists"

\* C29: every record of the store is under the key "asset:" + its
\* assetTagging, which is not empty and has no white space at either end; a
\* request answered 400 or 404 leaves the store as it was.
C29_StoreKeys ==
  /\ [](\A key \in DOMAIN store :
          LET k == store[key].assetTagging
          IN  /\ key = <<"a", "s", "s", "e", "t", ":">> \o k
              /\ Len(k) > 0
              /\ k[1] \notin WhiteSpace /\ k[Len(k)] \notin WhiteSpace)
  /\ [][\A i \in DOMAIN requests :
          (requests[i].pc # "responded" /\ requests'[i].pc = "responded"
             /\ requests'[i].status \in {400, 404})
            => store' = store]_vars

\* the store holds two records, sent with white space around their tags, and
\* a request has been answered 400
C29_Witness ==
  /\ Cardinality(DOMAIN store) = 2
  /\ \E i \in DOMAIN requests :
       /\ requests[i].pc = "responded"
       /\ requests[i].status = 400
       /\ requests[i].asset # <<>>
       /\ requests[i].body.assetTagging # requests[i].asset[1].assetTagging
\* C30: allSelected is true only when filteredAssets is not empty and the tag
\* of every asset in it is in selectedAssets.
C30_AllSelectedMeansAll ==
  allSelected =>
    /\ Len(filteredAssets) > 0
    /\ \A i \in 1..Len(filteredAssets) :
         \E j \in 1..Len(selectedAssets) :
           selectedAssets[j] = filteredAssets[i].assetTagging
====
